---- MODULE Spec2Model ----
(***************************************************************************)
(* Model of cirq/circuits/util.py: synthesis of native gate sequences      *)
(* (XYGate, ZGate, CZ) from small unitary matrices.                        *)
(*                                                                         *)
(* Number representation.  The Python code computes in floating point; the *)
(* model computes exactly:                                                 *)
(*   - complex numbers are elements of Z[zeta][1/2], zeta = exp(2 pi i/Tau),*)
(*     written [c |-> <<c_0..c_(RingDim-1)>>, d |-> k] for                  *)
(*     (sum c_j zeta^j) / 2^k;                                             *)
(*   - angles in radians are integer multiples of 2 pi / Tau;              *)
(*   - dimensionless reals (turns, tolerance, trace distance bounds) are   *)
(*     integer multiples of 1 / One.                                       *)
(***************************************************************************)
EXTENDS Integers, Sequences, FiniteSets

\* 2*pi in angle units (tau = 2 * np.pi).
Tau == 16

\* pi in angle units.
Pi == Tau \div 2

\* The real number 1 in fixed-point units (the modulus of _signed_mod_1).
One == 32

Half == One \div 2

Quarter == One \div 4

\* Number of coefficients of a ring element: zeta^RingDim = -1.
RingDim == Tau \div 2

Abs(n) == IF n < 0 THEN -n ELSE n

Max(a, b) == IF a > b THEN a ELSE b

RECURSIVE Pow2(_)
Pow2(k) == IF k = 0 THEN 1 ELSE 2 * Pow2(k - 1)

(***************************************************************************)
(* Evaluation order.  Python evaluates an argument once, before the call;  *)
(* Let1 and Let2 do the same: F is applied to the value of e.              *)
(***************************************************************************)
Let1(e, F(_)) == CHOOSE r \in {F(v) : v \in {e}} : TRUE

Let2(e1, e2, F(_, _)) == CHOOSE r \in {F(u, v) : u \in {e1}, v \in {e2}} : TRUE

(***************************************************************************)
(* Exact complex arithmetic.                                               *)
(***************************************************************************)
\* The coefficient tuple << F(1), ..., F(RingDim) >>.
Vec(F(_)) == << F(1), F(2), F(3), F(4), F(5), F(6), F(7), F(8) >>

AllEven(c) == \A i \in 1..RingDim : c[i] % 2 = 0

RECURSIVE CNorm(_)
CNorm(z0) ==
    Let1(z0, LAMBDA z :
        IF z.d > 0 /\ AllEven(z.c)
        THEN CNorm([c |-> Vec(LAMBDA i : z.c[i] \div 2), d |-> z.d - 1])
        ELSE z)

CInt(n) == [c |-> Vec(LAMBDA i : IF i = 1 THEN n ELSE 0), d |-> 0]

CZero == CInt(0)

COne == CInt(1)

\* exp(1j * angle), angle in angle units.
CExp(angle) ==
    Let1(angle % Tau, LAMBDA j :
        [c |-> Vec(LAMBDA i :
                  IF j < RingDim
                  THEN (IF i = j + 1 THEN 1 ELSE 0)
                  ELSE (IF i = j - RingDim + 1 THEN -1 ELSE 0)),
         d |-> 0])

CNeg(a0) == Let1(a0, LAMBDA a : [c |-> Vec(LAMBDA i : -a.c[i]), d |-> a.d])

CAdd(a0, b0) ==
    Let2(a0, b0, LAMBDA a, b :
        LET k  == Max(a.d, b.d)
            fa == Pow2(k - a.d)
            fb == Pow2(k - b.d)
        IN  CNorm([c |-> Vec(LAMBDA i : fa * a.c[i] + fb * b.c[i]), d |-> k]))

CSub(a, b) == CAdd(a, CNeg(b))

\* Term p of coefficient k (both 0-based) of a product: a_p * b_(k-p), with
\* zeta^RingDim = -1 for the terms that wrap.
MulTerm(a, b, k, p) ==
    IF a[p + 1] = 0 THEN 0
    ELSE IF p <= k THEN a[p + 1] * b[k - p + 1]
    ELSE -(a[p + 1] * b[k - p + RingDim + 1])

MulCoeff(a, b, k) ==
    MulTerm(a, b, k, 0) + MulTerm(a, b, k, 1) + MulTerm(a, b, k, 2)
    + MulTerm(a, b, k, 3) + MulTerm(a, b, k, 4) + MulTerm(a, b, k, 5)
    + MulTerm(a, b, k, 6) + MulTerm(a, b, k, 7)

CMul(a0, b0) ==
    Let2(a0, b0, LAMBDA a, b :
        IF a = CZero \/ b = CZero THEN CZero
        ELSE Let2(a.c, b.c, LAMBDA ac, bc :
                CNorm([c |-> Vec(LAMBDA i : MulCoeff(ac, bc, i - 1)),
                       d |-> a.d + b.d])))

\* np.conj
CConj(a0) ==
    Let1(a0, LAMBDA a :
        [c |-> Vec(LAMBDA i : IF i = 1 THEN a.c[1] ELSE -a.c[RingDim + 2 - i]),
         d |-> a.d])

CHalf(a0) == Let1(a0, LAMBDA a : CNorm([c |-> a.c, d |-> a.d + 1]))

\* a + b*sqrt(2) > 0 for integers a, b.
PosSqrt2(a, b) ==
    \/ a >= 0 /\ b >= 0 /\ (a > 0 \/ b > 0)
    \/ a > 0 /\ b < 0 /\ a * a > 2 * b * b
    \/ a < 0 /\ b > 0 /\ 2 * b * b > a * a

\* z is real, i.e. of the form (a + b*sqrt(2)) / 2^d with
\* sqrt(2) = zeta^(RingDim/4) - zeta^(3*RingDim/4).
IsReal(z) ==
    /\ \A i \in 1..RingDim :
          i \notin {1, RingDim \div 4 + 1, 3 * (RingDim \div 4) + 1} => z.c[i] = 0
    /\ z.c[3 * (RingDim \div 4) + 1] = -z.c[RingDim \div 4 + 1]

RealA(z) == z.c[1]

RealB(z) == z.c[RingDim \div 4 + 1]

IsPosReal(z0) == \E z \in {z0} : IsReal(z) /\ PosSqrt2(RealA(z), RealB(z))

\* |z|^2, a real ring element.
AbsSq(z0) == Let1(z0, LAMBDA z : CMul(z, CConj(z)))

\* z * exp(1j * angle): multiplication by a power of zeta shifts the
\* coefficients, with a sign change for each wrap past zeta^RingDim = -1.
CRot(z0, angle) ==
    Let2(z0, angle % Tau, LAMBDA z, j :
        [c |-> Vec(LAMBDA i :
                  LET p == (i - 1 - j) % Tau
                  IN  IF p < RingDim THEN z.c[p + 1] ELSE -z.c[p - RingDim + 1]),
         d |-> z.d])

\* cmath.phase: the angle in (-pi, pi] of z; phase(0) = 0.
Phase(z0) ==
    Let1(z0, LAMBDA z :
        IF z = CZero THEN 0
        ELSE CHOOSE k \in (1 - Pi)..Pi : IsPosReal(CRot(z, -k)))

\* np.cos, np.sin of an angle in angle units.
Cos(angle) == CHalf(CAdd(CExp(angle), CExp(-angle)))

Sin(angle) == CHalf(CMul(CExp(-(Tau \div 4)), CSub(CExp(angle), CExp(-angle))))

\* math.atan2(abs(y), abs(x)) for complex y, x: the angle r in [0, pi/2]
\* with |y| cos r = |x| sin r; atan2(0, .) = 0.
Atan2Abs(y, x) ==
    Let2(AbsSq(y), AbsSq(x), LAMBDA yy, xx :
        IF yy = CZero THEN 0
        ELSE CHOOSE r \in 1..(Tau \div 4) :
                \E c \in {Cos(r)}, s \in {Sin(r)} :
                    CMul(yy, CMul(c, c)) = CMul(xx, CMul(s, s)))

(***************************************************************************)
(* 2x2 matrices <<m00, m01, m10, m11>>.                                    *)
(***************************************************************************)
MatDot(a0, b0) ==
    Let2(a0, b0, LAMBDA a, b :
        << CAdd(CMul(a[1], b[1]), CMul(a[2], b[3])),
           CAdd(CMul(a[1], b[2]), CMul(a[2], b[4])),
           CAdd(CMul(a[3], b[1]), CMul(a[4], b[3])),
           CAdd(CMul(a[3], b[2]), CMul(a[4], b[4])) >>)

\* Conjugate transpose (np.mat(...).H).
MatH(a0) ==
    Let1(a0, LAMBDA a : << CConj(a[1]), CConj(a[3]), CConj(a[2]), CConj(a[4]) >>)

IdentityMat == << COne, CZero, CZero, COne >>

IsUnitary(m0) == \E m \in {m0} : MatDot(m, MatH(m)) = IdentityMat

\* a = lambda * b for some scalar lambda (a, b nonzero): all 2x2 minors of
\* the pair of entry vectors vanish.
EqUpToPhase(a0, b0) ==
    \E a \in {a0}, b \in {b0} :
        \A i, j \in 1..4 : CMul(a[i], b[j]) = CMul(a[j], b[i])

\* _phase_matrix
PhaseMatrix(angle) == << COne, CZero, CZero, CExp(angle) >>

\* _rotation_matrix
RotationMatrix(angle) ==
    Let2(Cos(angle), Sin(angle), LAMBDA c, s : << c, CNeg(s), s, c >>)

\* Variant of _signed_mod_1 with a remainder that takes the sign of the
\* dividend, as C's fmod does.
SignedMod1_TruncatedRemainder(x) ==
    (IF x + Half < 0 THEN -((-(x + Half)) % One) ELSE (x + Half) % One) - Half

\* _signed_mod_1, on fixed-point reals.
SignedMod1(x) == ((x + Half) % One) - Half

(***************************************************************************)
(* Input domain: the 2x2 unitaries whose entries are 0 or have magnitude 1 *)
(* or 1/sqrt(2) and a phase that is a multiple of pi/4.  They are the     *)
(* diagonal, the anti-diagonal and the balanced ones.                      *)
(***************************************************************************)
InvSqrt2 == Cos(Tau \div 8)

\* exp(1j * k * pi/4)
Unit8(k) == CExp(2 * k)

Phases8 == 0..(RingDim - 1)

DiagonalUnitaries ==
    {<< Unit8(a), CZero, CZero, Unit8(b) >> : a, b \in Phases8}

AntiDiagonalUnitaries ==
    {<< CZero, Unit8(a), Unit8(b), CZero >> : a, b \in Phases8}

\* Rows (zeta^a, zeta^b)/sqrt(2) and (zeta^c, -zeta^(b+c-a))/sqrt(2).
BalancedUnitaries ==
    {<< CMul(InvSqrt2, Unit8(a)), CMul(InvSqrt2, Unit8(b)),
        CMul(InvSqrt2, Unit8(c)), CNeg(CMul(InvSqrt2, Unit8(b + c - a))) >> :
        a, b, c \in Phases8}

Unitaries == DiagonalUnitaries \cup AntiDiagonalUnitaries \cup BalancedUnitaries

(***************************************************************************)
(* Gates.                                                                  *)
(***************************************************************************)
XYGate(turns, axis_phase_turns) ==
    [type |-> "XYGate", turns |-> turns, axis_phase_turns |-> axis_phase_turns]

ZGate(turns) == [type |-> "ZGate", turns |-> turns]

\* Gate.trace_distance_bound(): a nonnegative upper bound on the operator
\* distance 2*|sin(pi*turns)| <= 2*pi*|turns| a rotation by `turns` introduces.
TraceDistanceBound(g) == 7 * Abs(g.turns)

\* Angle (radians) of a rotation given in turns; defined when representable.
TurnsToAngle(t) == CHOOSE a \in -(2 * Tau)..(2 * Tau) : a * One = t * Tau

\* Unitary matrix of a gate: a ZGate phases |1> by `turns`; an XYGate is the
\* rotation by `turns` about the axis at `axis_phase_turns` in the XY plane.
GateMatrix(g) ==
    IF g.type = "ZGate"
    THEN PhaseMatrix(TurnsToAngle(g.turns))
    ELSE Let2(PhaseMatrix(TurnsToAngle(g.axis_phase_turns)),
              CExp(TurnsToAngle(g.turns)), LAMBDA phase, c :
            Let2(CHalf(CAdd(COne, c)), CHalf(CSub(COne, c)), LAMBDA p, m :
                MatDot(MatDot(phase, << p, m, m, p >>), MatH(phase))))

\* Matrix of a gate list applied in list order (first gate applied first).
RECURSIVE GatesMatrix(_)
GatesMatrix(gates0) ==
    Let1(gates0, LAMBDA gates :
        IF gates = << >> THEN IdentityMat
        ELSE MatDot(GatesMatrix(Tail(gates)), GateMatrix(Head(gates))))

(***************************************************************************)
(* Single-qubit synthesis.                                                 *)
(***************************************************************************)
\* _deconstruct_single_qubit_matrix_into_angles
DeconstructIntoAngles(mat0) ==
    Let1(mat0, LAMBDA m :
    Let1(Phase(CMul(m[2], CConj(m[1]))) + Pi, LAMBDA right_phase :
    Let1(MatDot(m, PhaseMatrix(-right_phase)), LAMBDA m1 :
    Let1(Phase(CMul(m1[3], CConj(m1[1]))), LAMBDA bottom_phase :
    Let1(MatDot(PhaseMatrix(-bottom_phase), m1), LAMBDA m2 :
    Let1(Atan2Abs(m2[3], m2[1]), LAMBDA rotation :
    Let1(MatDot(RotationMatrix(-rotation), m2), LAMBDA m3 :
    Let1(Phase(CMul(m3[4], CConj(m3[1]))), LAMBDA diagonal_phase :
        << right_phase + diagonal_phase, rotation, bottom_phase >>))))))))

\* Variant of the gate-turn computation with xy_phase_turn taken as
\* 0.25 + pre_phase / tau.
DeconstructIntoGateTurns_AxisSign(m) ==
    Let1(DeconstructIntoAngles(m), LAMBDA angles :
        LET pre_phase     == angles[1]
            rotation      == angles[2]
            post_phase    == angles[3]
            xy_turn       == (2 * rotation * One) \div Tau
            xy_phase_turn == Quarter + ((pre_phase * One) \div Tau)
            total_z_turn  == ((post_phase + pre_phase) * One) \div Tau
        IN  << SignedMod1(xy_turn), SignedMod1(xy_phase_turn),
               SignedMod1(total_z_turn) >>)

\* _deconstruct_single_qubit_matrix_into_gate_turns
DeconstructIntoGateTurns(m) ==
    Let1(DeconstructIntoAngles(m), LAMBDA angles :
        LET pre_phase     == angles[1]
            rotation      == angles[2]
            post_phase    == angles[3]
            xy_turn       == (2 * rotation * One) \div Tau
            xy_phase_turn == Quarter - ((pre_phase * One) \div Tau)
            total_z_turn  == ((post_phase + pre_phase) * One) \div Tau
        IN  << SignedMod1(xy_turn), SignedMod1(xy_phase_turn),
               SignedMod1(total_z_turn) >>)

\* The candidate list built at lines 120-123.
Candidates(t) == << XYGate(t[1], t[2]), ZGate(t[3]) >>

\* Variants of the filter: one keeps a gate whose bound equals the
\* tolerance, the other compares the turns instead of the bound.
KeepGate_AtOrAbove(g, tol) == TraceDistanceBound(g) >= tol

KeepGate_ByTurns(g, tol) == Abs(g.turns) > tol

\* The comprehension at line 124.
KeepGate(g, tol) == TraceDistanceBound(g) > tol

FilterGates(gates, tol) == SelectSeq(gates, LAMBDA g : KeepGate(g, tol))

\* Variant of the special case that does not look at what the filter kept.
AbsorbsHalfTurn_AnyLength(filt, t, tol) == Abs(t[1]) >= Half - tol

\* Variant of the absorbed gate that adds the whole of total_z_turn.
AbsorbedGate_WholeZ(t) == XYGate(Half, t[2] + t[3])

\* The special case at lines 127-131.
AbsorbsHalfTurn(filt, t, tol) == Len(filt) = 2 /\ Abs(t[1]) >= Half - tol

AbsorbedGate(t) == XYGate(Half, t[2] + (t[3] \div 2))

\* single_qubit_matrix_to_native_gates, given the gate turns of the matrix.
NativeGatesOfTurns(t, tol) ==
    LET filt == FilterGates(Candidates(t), tol)
    IN  IF AbsorbsHalfTurn(filt, t, tol) THEN << AbsorbedGate(t) >> ELSE filt

\* single_qubit_matrix_to_native_gates
SingleQubitMatrixToNativeGates(m, tol) ==
    Let1(DeconstructIntoGateTurns(m), LAMBDA t : NativeGatesOfTurns(t, tol))

(***************************************************************************)
(* Operations: a gate bound to qubits.                                     *)
(***************************************************************************)
\* gate(q), gate.on(q0, q1)
GateOn(g, qubits) == [gate |-> g, qubits |-> qubits]

\* base ** exponent for the named gates ops.CZ, ops.Z, ops.X, ops.Y.
PowGate(base, exponent) == [type |-> base, exponent |-> exponent]

\* The inverse of a gate is the gate with its parameter negated.
InverseGate(g) ==
    IF g.type = "XYGate" THEN XYGate(-g.turns, g.axis_phase_turns)
    ELSE IF g.type = "ZGate" THEN ZGate(-g.turns)
    ELSE PowGate(g.type, -g.exponent)

\* ops.inverse_of_invertable_op_tree on a flat list: the inverses of the
\* operations, in reverse order.
InverseOfOpTree(oplist0) ==
    Let1(oplist0, LAMBDA oplist :
        [i \in 1..Len(oplist) |->
            GateOn(InverseGate(oplist[Len(oplist) + 1 - i].gate),
                   oplist[Len(oplist) + 1 - i].qubits)])

GatesOn(gates0, q) ==
    Let1(gates0, LAMBDA gates :
        [i \in 1..Len(gates) |-> GateOn(gates[i], << q >>)])

(***************************************************************************)
(* Controlled single-qubit operations.                                     *)
(***************************************************************************)
\* a / b for b of unit magnitude.
CDiv(a, b) == CHOOSE q \in {CMul(a, CConj(b))} : CMul(q, b) = a

\* abs(w) <= tol for complex w and a fixed-point real tol:
\* |w|^2 = (a + b*sqrt(2)) / 2^d  <=  tol^2 / One^2.
AbsLeq(w, tol) ==
    \E s \in {AbsSq(w)} :
        /\ tol >= 0
        /\ ~PosSqrt2(RealA(s) * One * One - tol * tol * Pow2(s.d),
                     RealB(s) * One * One)

\* cmath.phase(z) / math.pi as a fixed-point real.
PhaseOverPi(z) == (Phase(z) * One) \div Pi

\* single_qubit_op_to_framed_phase_form, given what np.linalg.eig returned.
FramedPhaseForm(vals, vecs) ==
    [u |-> MatH(vecs), r |-> CDiv(vals[2], vals[1]), g |-> vals[1]]

\* Variant that keeps a trailing ZGate.
DropTrailingZ_Kept(gates) == gates

\* Lines 186-188.
DropTrailingZ(gates0) ==
    Let1(gates0, LAMBDA gates :
        IF gates # << >> /\ gates[Len(gates)].type = "ZGate"
        THEN SubSeq(gates, 1, Len(gates) - 1)
        ELSE gates)

\* Variant of the identity test with a strict comparison.
ActsAsIdentity_Strict(z_phase, tol) ==
    \E s \in {AbsSq(CSub(z_phase, COne))} :
        /\ tol > 0
        /\ PosSqrt2(tol * tol * Pow2(s.d) - RealA(s) * One * One,
                    -(RealB(s) * One * One))

\* Line 182.
ActsAsIdentity(z_phase, tol) == AbsLeq(CSub(z_phase, COne), tol)

\* Line 197.
HasKickback(global_phase, tol) == ~AbsLeq(CSub(global_phase, COne), tol)

\* controlled_op_to_native_gates, given what np.linalg.eig returned.
ControlledOpToNativeGates(control, target, vals, vecs, tol) ==
    Let1(FramedPhaseForm(vals, vecs), LAMBDA f :
        IF ActsAsIdentity(f.r, tol) THEN << >>
        ELSE
        Let1(DropTrailingZ(SingleQubitMatrixToNativeGates(f.u, tol)), LAMBDA u_gates :
        Let1(GatesOn(u_gates, target), LAMBDA ops_before :
            LET ops_after == InverseOfOpTree(ops_before)
                effect    == GateOn(PowGate("CZ", PhaseOverPi(f.r)),
                                    << control, target >>)
                kickback  == GateOn(PowGate("Z", PhaseOverPi(f.g)), << control >>)
            IN  ops_before \o << effect >>
                \o (IF HasKickback(f.g, tol) THEN << kickback >> ELSE << >>)
                \o ops_after)))

(***************************************************************************)
(* Two-qubit operations.                                                   *)
(***************************************************************************)
\* Variant of the negligibility test of parity_interaction that also holds
\* at equality.
RadsBelow_OrEqual(rads, tol) == Abs(rads) * One * 355 <= tol * Pi * 113

\* abs(rads) < tol for an angle rads (a multiple of pi/Pi) and a fixed-point
\* real tol (a multiple of 1/One); 355/113 exceeds pi by less than 3e-7, so
\* the comparison is exact for the integers of the model.
RadsBelow(rads, tol) == Abs(rads) * One * 355 < tol * Pi * 113

\* The absent framing gate (op = None).
NoGate == [type |-> "None", exponent |-> 0]

\* parity_interaction; op is NoGate or the framing gate.
ParityInteraction(q0, q1, rads, op, tol) ==
    IF RadsBelow(rads, tol) THEN << >>
    ELSE LET e == (rads * 4 * One) \div Pi
             h == (-e) \div 2
         IN  (IF op # NoGate THEN << GateOn(op, << q0 >>), GateOn(op, << q1 >>) >>
              ELSE << >>)
             \o << GateOn(PowGate("CZ", e), << q0, q1 >>),
                   GateOn(PowGate("Z", h), << q0 >>),
                   GateOn(PowGate("Z", h), << q1 >>) >>
             \o (IF op # NoGate
                 THEN << GateOn(InverseGate(op), << q0 >>),
                         GateOn(InverseGate(op), << q1 >>) >>
                 ELSE << >>)

\* do_single_on
DoSingleOn(u, q, tol) == GatesOn(SingleQubitMatrixToNativeGates(u, tol), q)

\* Variant that synthesizes the pieces on q0 before those on q1.
SynthesizeLocals_Q0First(q0, q1, k, tol) ==
    [pre  |-> DoSingleOn(k.b0, q0, tol) \o DoSingleOn(k.b1, q1, tol),
     post |-> DoSingleOn(k.a0, q0, tol) \o DoSingleOn(k.a1, q1, tol)]

\* Lines 241-242 of two_qubit_matrix_to_native_gates: pre and post, flattened.
SynthesizeLocals(q0, q1, k, tol) ==
    [pre  |-> DoSingleOn(k.b1, q1, tol) \o DoSingleOn(k.b0, q0, tol),
     post |-> DoSingleOn(k.a1, q1, tol) \o DoSingleOn(k.a0, q0, tol)]

\* Lines 243-253: the three interactions and the flattened result.
TwoQubitOps(q0, q1, pre, post, k, tol) ==
    LET xx_part == ParityInteraction(q0, q1, k.x, PowGate("Y", -Half), tol)
        yy_part == ParityInteraction(q0, q1, k.y, PowGate("X", Half), tol)
        zz_part == ParityInteraction(q0, q1, k.z, NoGate, tol)
    IN  pre \o xx_part \o yy_part \o zz_part \o post

VARIABLES pc, fn, x, mat, tolerance, turns, filtered, result, eig, kak, locals

vars == << pc, fn, x, mat, tolerance, turns, filtered, result, eig, kak, locals >>

MaxX == 70

MaxTol == 29

Tolerances == -1..MaxTol

(***************************************************************************)
(* Calls of _signed_mod_1(x) and of                                        *)
(* single_qubit_matrix_to_native_gates(mat, tolerance).                    *)
(***************************************************************************)
InitMod ==
    /\ pc = "call" /\ fn = "_signed_mod_1"
    /\ x \in -MaxX..MaxX
    /\ mat = << >> /\ tolerance = 0 /\ turns = << >> /\ filtered = << >>
    /\ result = << >> /\ eig = << >> /\ kak = << >> /\ locals = << >>

CallSignedMod1 ==
    /\ pc = "call" /\ fn = "_signed_mod_1"
    /\ pc' = "done"
    /\ result' = SignedMod1(x)
    /\ UNCHANGED << fn, x, mat, tolerance, turns, filtered, eig, kak, locals >>

\* The call runs in two steps: lines 116-117, which do not read tolerance,
\* and lines 119-133; tolerance is drawn where it is first read.
InitSingle ==
    /\ pc = "call" /\ fn = "single_qubit_matrix_to_native_gates"
    /\ x = 0
    /\ mat \in Unitaries
    /\ tolerance = 0
    /\ turns = << >> /\ filtered = << >> /\ result = << >>
    /\ eig = << >> /\ kak = << >> /\ locals = << >>

\* Lines 116-117.
SingleQubitDeconstruct ==
    /\ pc = "call" /\ fn = "single_qubit_matrix_to_native_gates"
    /\ pc' = "deconstructed"
    /\ turns' = DeconstructIntoGateTurns(mat)
    /\ UNCHANGED << fn, x, mat, tolerance, filtered, result, eig, kak, locals >>

\* Lines 119-133.
SingleQubitBuild ==
    /\ pc = "deconstructed" /\ fn = "single_qubit_matrix_to_native_gates"
    /\ \E tol \in Tolerances :
        /\ tolerance' = tol
        /\ filtered' = FilterGates(Candidates(turns), tol)
        /\ result' = NativeGatesOfTurns(turns, tol)
    /\ pc' = "done"
    /\ UNCHANGED << fn, x, mat, turns, eig, kak, locals >>

Init == InitMod \/ InitSingle

Next == CallSignedMod1 \/ SingleQubitDeconstruct \/ SingleQubitBuild

Spec == Init /\ [][Next]_vars

(***************************************************************************)
(* Calls of controlled_op_to_native_gates(control, target, operation,      *)
(* tolerance).  np.linalg.eig is a collaborator: the operation is drawn    *)
(* together with an eigendecomposition of it, operation * vecs =           *)
(* vecs * diag(vals), which is what eig returns at line 157.               *)
(***************************************************************************)
MaxEig == 4

\* Unit-magnitude eigenvalues exp(1j * k * pi/4).
EigVals == {Unit8(k) : k \in 0..MaxEig}

MaxVecPhase == 2

\* Unitary eigenvector matrices: the first eigenvector (column) is real and
\* nonnegative, the second has phase k * pi/4 relative to it, k <= MaxVecPhase.
EigVecs ==
    UNION {{ << COne, CZero, CZero, Unit8(k) >>,
             << CZero, Unit8(k), COne, CZero >>,
             << InvSqrt2, CMul(InvSqrt2, Unit8(k)),
                InvSqrt2, CNeg(CMul(InvSqrt2, Unit8(k))) >> } : k \in 0..MaxVecPhase}

InitControlled ==
    /\ pc = "call" /\ fn = "controlled_op_to_native_gates"
    /\ x = 0
    /\ \E v0, v1 \in EigVals : \E vecs \in EigVecs :
        /\ eig = [vals |-> << v0, v1 >>, vecs |-> vecs]
        /\ mat = MatDot(MatDot(vecs, << v0, CZero, CZero, v1 >>), MatH(vecs))
    /\ tolerance \in Tolerances
    /\ turns = << >> /\ filtered = << >> /\ result = << >> /\ kak = << >>
    /\ locals = << >>

CallControlledOp ==
    /\ pc = "call" /\ fn = "controlled_op_to_native_gates"
    /\ pc' = "done"
    /\ result' = ControlledOpToNativeGates("control", "target", eig.vals, eig.vecs,
                                           tolerance)
    /\ UNCHANGED << fn, x, mat, tolerance, turns, filtered, eig, kak, locals >>

SpecControlled == InitControlled /\ [][CallControlledOp]_vars

(***************************************************************************)
(* Calls of two_qubit_matrix_to_native_gates(q0, q1, mat, tolerance).      *)
(* linalg.kak_decomposition is a collaborator: what it returns at line 218 *)
(* is drawn and the 4x4 matrix itself is not represented.  do_single_on    *)
(* and parity_interaction are generators that flatten_op_tree consumes at  *)
(* lines 247-253; they are pure, so the model evaluates pre and post where *)
(* they are created (lines 241-242), as one step, and the interactions and *)
(* the flattening as a second step.  The interaction coefficients are      *)
(* drawn where they are first read.                                        *)
(***************************************************************************)
MaxRads == 1

MaxTol2 == 13

\* Tolerances around 0 and around the smallest nonzero |rads|, pi/Pi.
KakTolerances == {-1, 0, 1, MaxTol2 - 1, MaxTol2}

\* Interaction coefficients, in angle units.
KakRads == -MaxRads..MaxRads

\* Single-qubit factors returned by the KAK decomposition.
KakLocals ==
    { IdentityMat,
      << InvSqrt2, CMul(InvSqrt2, Unit8(1)), InvSqrt2, CNeg(CMul(InvSqrt2, Unit8(1))) >> }

InitTwoQubit ==
    /\ pc = "call" /\ fn = "two_qubit_matrix_to_native_gates"
    /\ x = 0 /\ mat = << >>
    /\ \E a1, a0, b1, b0 \in KakLocals :
        kak = [a1 |-> a1, a0 |-> a0, b1 |-> b1, b0 |-> b0]
    /\ tolerance \in KakTolerances
    /\ turns = << >> /\ filtered = << >> /\ result = << >> /\ eig = << >>
    /\ locals = << >>

\* Lines 218 and 241-242.
TwoQubitSynthesize ==
    /\ pc = "call" /\ fn = "two_qubit_matrix_to_native_gates"
    /\ pc' = "synthesized"
    /\ locals' = SynthesizeLocals("q0", "q1", kak, tolerance)
    /\ UNCHANGED << fn, x, mat, tolerance, turns, filtered, result, eig, kak >>

\* Lines 243-253.
TwoQubitInteract ==
    /\ pc = "synthesized" /\ fn = "two_qubit_matrix_to_native_gates"
    /\ \E kx, ky, kz \in KakRads :
        /\ kak' = [a1 |-> kak.a1, a0 |-> kak.a0, x |-> kx, y |-> ky, z |-> kz,
                   b1 |-> kak.b1, b0 |-> kak.b0]
        /\ result' = TwoQubitOps("q0", "q1", locals.pre, locals.post, kak', tolerance)
    /\ pc' = "done"
    /\ UNCHANGED << fn, x, mat, tolerance, turns, filtered, eig, locals >>

NextTwoQubit == TwoQubitSynthesize \/ TwoQubitInteract

SpecTwoQubit == InitTwoQubit /\ [][NextTwoQubit]_vars

(***************************************************************************)
(* Properties.                                                             *)
(***************************************************************************)
DoneSingle == pc = "done" /\ fn = "single_qubit_matrix_to_native_gates"

DoneControlled == pc = "done" /\ fn = "controlled_op_to_native_gates"

DoneTwoQubit == pc = "done" /\ fn = "two_qubit_matrix_to_native_gates"

BitFlip == << CZero, COne, COne, CZero >>

\* C1: for every unitary of the domain and tolerance 0, the product of the
\* returned gates, first gate applied first, equals the matrix up to a
\* global scalar.
C1_ProductReconstructsMatrix ==
    (DoneSingle /\ tolerance = 0 /\ IsUnitary(mat)) =>
        EqUpToPhase(GatesMatrix(result), mat)

C1_Witness ==
    /\ DoneSingle /\ tolerance = 0
    /\ IsUnitary(mat)
    /\ Len(result) = 2
    /\ mat[1] # CZero /\ mat[2] # CZero
    /\ EqUpToPhase(GatesMatrix(result), mat)

C3_FilterDropsAtOrBelowTolerance ==
    DoneSingle =>
        LET c          == Candidates(turns)
            dropped(g) == TraceDistanceBound(g) <= tolerance
        IN  filtered = (IF dropped(c[1]) THEN << >> ELSE << c[1] >>)
                       \o (IF dropped(c[2]) THEN << >> ELSE << c[2] >>)

C3_Witness ==
    /\ DoneSingle /\ tolerance > 0
    /\ TraceDistanceBound(Candidates(turns)[2]) = tolerance
    /\ filtered = << Candidates(turns)[1] >>

\* C4: the result is the single gate XYGate(0.5, xy_phase_turn +
\* total_z_turn/2) exactly when both candidates survived filtering and
\* |xy_turn| >= 0.5 - tolerance; otherwise it is the filtered list, of
\* length 0, 1 or 2.
C4_AbsorptionDecidedAfterFiltering ==
    DoneSingle =>
        LET absorbs == Len(filtered) = 2 /\ Abs(turns[1]) >= Half - tolerance
            single  == << XYGate(Half, turns[2] + (turns[3] \div 2)) >>
        IN  /\ absorbs => result = single
            /\ ~absorbs => result = filtered /\ Len(result) \in 0..2
            /\ result = single => absorbs

C4_Witness ==
    /\ DoneSingle
    /\ Abs(turns[1]) >= Half - tolerance
    /\ TraceDistanceBound(Candidates(turns)[2]) > 0
    /\ Len(filtered) = 1 /\ filtered[1].type = "XYGate"
    /\ result = filtered

\* C9: _signed_mod_1 maps x into [-0.5, 0.5), changes it by an integer and
\* is idempotent; the three gate turns of a matrix lie in [-0.5, 0.5).
C9_SignedMod1Canonical ==
    /\ (pc = "done" /\ fn = "_signed_mod_1") =>
          /\ -Half <= result /\ result < Half
          /\ (result - x) % One = 0
          /\ SignedMod1(result) = result
    /\ (fn = "single_qubit_matrix_to_native_gates" /\ pc # "call") =>
          \A i \in 1..3 : -Half <= turns[i] /\ turns[i] < Half

C9_Witness ==
    /\ pc = "done" /\ fn = "_signed_mod_1"
    /\ x < -One
    /\ result = -Half

\* C10: for the bit-flip matrix and a tolerance between 0 and the smallest
\* positive tolerance of the model (1e-8 lies between them), the result is
\* one XYGate built with turns 0.5 whose axis phase is 0 up to the sign
\* convention (0 or +-0.5), and its matrix is the bit flip up to a global
\* scalar.
C10_BitFlipIsOneHalfTurn ==
    (DoneSingle /\ mat = BitFlip /\ tolerance \in {0, 1}) =>
        /\ Len(result) = 1
        /\ result[1].type = "XYGate"
        /\ result[1].turns = Half
        /\ result[1].axis_phase_turns % Half = 0
        /\ EqUpToPhase(GatesMatrix(result), BitFlip)

C10_Witness ==
    /\ DoneSingle /\ mat = BitFlip /\ tolerance = 1
    /\ result = << XYGate(Half, -Half) >>

\* The relative phase z_phase and the global phase of the drawn operation.
ZPhase == CDiv(eig.vals[2], eig.vals[1])

GlobalPhase == eig.vals[1]

C6_ControlledSequenceShape ==
    (DoneControlled /\ result # << >>) =>
        \E g0 \in {SingleQubitMatrixToNativeGates(MatH(eig.vecs), tolerance)},
           kick \in {~AbsLeq(CSub(GlobalPhase, COne), tolerance)} :
        \E n \in {IF g0 # << >> /\ g0[Len(g0)].type = "ZGate"
                  THEN Len(g0) - 1 ELSE Len(g0)},
           k \in {IF kick THEN 1 ELSE 0} :
            /\ Len(result) = 2 * n + 1 + k
            /\ \A i \in 1..n : result[i] = [gate |-> g0[i], qubits |-> << "target" >>]
            /\ result[n + 1] =
                  [gate |-> [type |-> "CZ", exponent |-> (Phase(ZPhase) * One) \div Pi],
                   qubits |-> << "control", "target" >>]
            /\ kick => result[n + 2] =
                  [gate |-> [type |-> "Z", exponent |-> (Phase(GlobalPhase) * One) \div Pi],
                   qubits |-> << "control" >>]
            /\ \A i \in 1..n :
                  result[n + 1 + k + i] =
                      [gate |-> InverseGate(result[n + 1 - i].gate),
                       qubits |-> result[n + 1 - i].qubits]

C6_Witness ==
    /\ DoneControlled
    /\ Len(result) = 4
    /\ Len(SingleQubitMatrixToNativeGates(MatH(eig.vecs), tolerance)) = 2
    /\ result[1].gate.type = "XYGate" /\ result[2].gate.type = "CZ"
    /\ result[3].gate.type = "Z" /\ result[4].gate.type = "XYGate"

\* The single-qubit pieces of the drawn KAK decomposition.
PieceB1 == GatesOn(SingleQubitMatrixToNativeGates(kak.b1, tolerance), "q1")

PieceB0 == GatesOn(SingleQubitMatrixToNativeGates(kak.b0, tolerance), "q0")

PieceA1 == GatesOn(SingleQubitMatrixToNativeGates(kak.a1, tolerance), "q1")

PieceA0 == GatesOn(SingleQubitMatrixToNativeGates(kak.a0, tolerance), "q0")

\* What the result holds between pre and post.
Middle ==
    SubSeq(result, Len(locals.pre) + 1, Len(result) - Len(locals.post))

\* An interaction as it appears in the result: nothing, or the coupling
\* operation and two phase operations, inside the framing gate if any.
Interaction(seq, framing) ==
    \/ seq = << >>
    \/ /\ framing = NoGate
       /\ Len(seq) = 3
       /\ seq[1].gate.type = "CZ" /\ seq[1].qubits = << "q0", "q1" >>
    \/ /\ framing # NoGate
       /\ Len(seq) = 7
       /\ seq[1] = [gate |-> framing, qubits |-> << "q0" >>]
       /\ seq[2] = [gate |-> framing, qubits |-> << "q1" >>]
       /\ seq[3].gate.type = "CZ" /\ seq[3].qubits = << "q0", "q1" >>

\* C7: the result is, in order and with nothing interleaved, the gates of b1
\* on q1, of b0 on q0, the X interaction framed by Y**-0.5, the Y
\* interaction framed by X**0.5, the unframed Z interaction, the gates of
\* a1 on q1, of a0 on q0; every operation acts on q0 and/or q1 only, and the
\* pieces are synthesized with the tolerance of the call.
C7_TwoQubitSequenceOrder ==
    DoneTwoQubit =>
        \E pre \in {PieceB1 \o PieceB0}, post \in {PieceA1 \o PieceA0} :
        \E mid \in {SubSeq(result, Len(pre) + 1, Len(result) - Len(post))} :
            /\ Len(result) >= Len(pre) + Len(post)
            /\ result = pre \o mid \o post
            /\ \E i, j \in 0..Len(mid) :
                  /\ i <= j
                  /\ Interaction(SubSeq(mid, 1, i), [type |-> "Y", exponent |-> -Half])
                  /\ Interaction(SubSeq(mid, i + 1, j), [type |-> "X", exponent |-> Half])
                  /\ Interaction(SubSeq(mid, j + 1, Len(mid)), NoGate)
            /\ \A i \in 1..Len(result) :
                  result[i].qubits \in {<< "q0" >>, << "q1" >>, << "q0", "q1" >>}

C7_Witness ==
    /\ DoneTwoQubit /\ tolerance = 0
    /\ kak.b1 # IdentityMat /\ kak.b0 # IdentityMat
    /\ kak.a1 # IdentityMat /\ kak.a0 # IdentityMat
    /\ kak.x # 0 /\ kak.y # 0 /\ kak.z # 0
    /\ Len(locals.pre) = 4 /\ Len(locals.post) = 4 /\ Len(result) = 25

\* The operations parity_interaction(rads, framing) is to contribute.
ExpectedParity(rads, framing) ==
    LET e     == 16 * rads
        h     == -8 * rads
        core  == << [gate |-> [type |-> "CZ", exponent |-> e],
                     qubits |-> << "q0", "q1" >>],
                    [gate |-> [type |-> "Z", exponent |-> h], qubits |-> << "q0" >>],
                    [gate |-> [type |-> "Z", exponent |-> h], qubits |-> << "q1" >>] >>
        front == IF framing = NoGate THEN << >>
                 ELSE << [gate |-> framing, qubits |-> << "q0" >>],
                         [gate |-> framing, qubits |-> << "q1" >>] >>
        back  == IF framing = NoGate THEN << >>
                 ELSE << [gate |-> [type |-> framing.type,
                                    exponent |-> -framing.exponent],
                          qubits |-> << "q0" >>],
                         [gate |-> [type |-> framing.type,
                                    exponent |-> -framing.exponent],
                          qubits |-> << "q1" >>] >>
    IN  IF Abs(rads) * One * 355 < tolerance * Pi * 113 THEN << >>
        ELSE front \o core \o back

NumCouplings(seq) == Cardinality({i \in 1..Len(seq) : seq[i].gate.type = "CZ"})

\* C8: an interaction contributes nothing if |rads| < tolerance (strictly:
\* at rads = 0 with tolerance = 0 it still emits); otherwise framing on q0
\* and q1 (if given), CZ**e on (q0, q1), Z**h on q0, Z**h on q1, the inverse
\* framing on q0 and q1 (if given), with e = 4*rads/pi and h = -e/2; so it
\* contributes 0, 3 or 7 operations and one coupling operation if any.
C8_ParityInteractionShape ==
    DoneTwoQubit =>
        \E xx \in {ExpectedParity(kak.x, [type |-> "Y", exponent |-> -Half])},
           yy \in {ExpectedParity(kak.y, [type |-> "X", exponent |-> Half])},
           zz \in {ExpectedParity(kak.z, NoGate)} :
            /\ Middle = xx \o yy \o zz
            /\ Len(xx) \in {0, 7} /\ Len(yy) \in {0, 7} /\ Len(zz) \in {0, 3}
            /\ \A s \in {xx, yy, zz} : s # << >> => NumCouplings(s) = 1

C8_Witness ==
    /\ DoneTwoQubit /\ tolerance = 0
    /\ kak.x = 0 /\ kak.y # 0 /\ kak.z = 0
    /\ Len(Middle) = 17
    /\ Middle[3] = [gate |-> [type |-> "CZ", exponent |-> 0], qubits |-> << "q0", "q1" >>]
====
